---- MODULE Spec2Model ----
(***************************************************************************)
(* A model of the valuation engine of /api/_valuation.js (baselineGuard,   *)
(* enforceRange, computeValuation) and of the external estimator it awaits.*)
(*                                                                         *)
(* JavaScript values are records [t, n, s]: t is the type tag, n the       *)
(* payload of a number or boolean, s the characters of a string.  A number *)
(* is held in tenths of a unit (18500.5 is 185005), so that fractional     *)
(* dollar amounts and Math.round are exact; inputs carry at most one       *)
(* fractional digit.  A string is the sequence of its characters, so that  *)
(* formatting (money), parsing (moneyNum, Number) and toLowerCase are      *)
(* computed character by character as the code does.                       *)
(***************************************************************************)
EXTENDS Integers, Sequences, FiniteSets

\* The one element of a singleton set.  Val({e : x \in {a}}) is e with x bound
\* to the value of a: how a local constant of the code is written here.
Val(S) == CHOOSE r \in S : TRUE

\* ------------------------------------------------------------ JS values
Undef == [t |-> "undefined", n |-> 0, s |-> <<>>]
Null == [t |-> "null", n |-> 0, s |-> <<>>]
Bool(b) == [t |-> "boolean", n |-> IF b THEN 1 ELSE 0, s |-> <<>>]
Num(v) == [t |-> "number", n |-> v, s |-> <<>>]
Str(cs) == [t |-> "string", n |-> 0, s |-> cs]
Obj == [t |-> "object", n |-> 0, s |-> <<>>]

\* n whole units as a number (held in tenths)
Whole(n) == Num(n * 10)

\* ToBoolean: undefined, null, false, 0 and "" are falsy
Truthy(x) ==
  CASE x.t = "undefined" -> FALSE
    [] x.t = "null" -> FALSE
    [] x.t = "boolean" -> x.n = 1
    [] x.t = "number" -> x.n # 0
    [] x.t = "string" -> x.s # <<>>
    [] OTHER -> TRUE

\* a || b
OrElse(a, b) == IF Truthy(a) THEN a ELSE b

\* ------------------------------------------------------------ characters
DigitChars == <<"0", "1", "2", "3", "4", "5", "6", "7", "8", "9">>

IsDigit(c) == \E d \in 1..10 : DigitChars[d] = c

DigitVal(c) == (CHOOSE d \in 1..10 : DigitChars[d] = c) - 1

UpperChars ==
  <<"A", "B", "C", "D", "E", "F", "G", "H", "I", "J", "K", "L", "M",
    "N", "O", "P", "Q", "R", "S", "T", "U", "V", "W", "X", "Y", "Z">>

LowerChars ==
  <<"a", "b", "c", "d", "e", "f", "g", "h", "i", "j", "k", "l", "m",
    "n", "o", "p", "q", "r", "s", "t", "u", "v", "w", "x", "y", "z">>

LowerChar(c) ==
  IF \E k \in 1..26 : UpperChars[k] = c
  THEN LowerChars[CHOOSE k \in 1..26 : UpperChars[k] = c]
  ELSE c

\* String.prototype.toLowerCase
toLowerCase(cs) == [i \in 1..Len(cs) |-> LowerChar(cs[i])]

RECURSIVE DigitsOf(_)
\* the decimal digits of a natural number
DigitsOf(k) ==
  Val({IF n < 10 THEN <<DigitChars[n + 1]>>
       ELSE DigitsOf(n \div 10) \o <<DigitChars[(n % 10) + 1]>> : n \in {k}})

RECURSIVE IntOf(_)
\* the natural number a sequence of digits denotes (0 for the empty one)
IntOf(ds) ==
  Val({IF d = <<>> THEN 0
       ELSE IntOf(SubSeq(d, 1, Len(d) - 1)) * 10 + DigitVal(d[Len(d)]) : d \in {ds}})

\* ------------------------------------------------------------ numbers
\* Math.round of a number held in tenths: nearest integer, halves up
Round(v) == (v + 5) \div 10

\* Math.round(a / b) for integers a and b > 0
RoundDiv(a, b) == (a + (b \div 2)) \div b

\* round(a * b / c) for 0 <= b <= c without leaving 32 bits
MulDiv(a, b, c) ==
  Val({(x \div c) * y + RoundDiv((x % c) * y, c) : x \in {a}, y \in {b}})

Max(a, b) == CHOOSE m \in {a, b} : \A k \in {a, b} : m >= k

Min(a, b) == CHOOSE m \in {a, b} : \A k \in {a, b} : m <= k

\* String(x) for the values the engine converts
StringOf(x) ==
  CASE x.t = "string" -> x.s
    [] x.t = "number" ->
         LET a == IF x.n < 0 THEN 0 - x.n ELSE x.n
             sign == IF x.n < 0 THEN <<"-">> ELSE <<>>
             frac == IF a % 10 = 0 THEN <<>> ELSE <<".", DigitChars[(a % 10) + 1]>>
         IN sign \o DigitsOf(a \div 10) \o frac
    [] x.t = "boolean" ->
         IF x.n = 1 THEN <<"t", "r", "u", "e">> ELSE <<"f", "a", "l", "s", "e">>
    [] x.t = "null" -> <<"n", "u", "l", "l">>
    [] x.t = "undefined" -> <<"u", "n", "d", "e", "f", "i", "n", "e", "d">>
    [] OTHER ->
         <<"[", "o", "b", "j", "e", "c", "t", " ", "O", "b", "j", "e", "c", "t", "]">>

RECURSIVE TrimLeft(_)
TrimLeft(cs) ==
  Val({IF c # <<>> /\ c[1] = " " THEN TrimLeft(Tail(c)) ELSE c : c \in {cs}})

RECURSIVE TrimRight(_)
TrimRight(cs) ==
  Val({IF c # <<>> /\ c[Len(c)] = " "
       THEN TrimRight(SubSeq(c, 1, Len(c) - 1)) ELSE c : c \in {cs}})

\* String.prototype.trim
Trim(cs) == TrimRight(TrimLeft(cs))

\* StringToNumber: [fin, v]; fin is FALSE for NaN.  Decimal literals with an
\* optional sign; the empty (or blank) string is 0.
StringToNumber(str) ==
  Val({
    LET signed == cs # <<>> /\ cs[1] \in {"-", "+"}
        neg == cs # <<>> /\ cs[1] = "-"
    IN Val({
      LET dots == {i \in 1..Len(body) : body[i] = "."}
          wellFormed ==
            /\ \A i \in 1..Len(body) : IsDigit(body[i]) \/ body[i] = "."
            /\ Cardinality(dots) <= 1
            /\ \E i \in 1..Len(body) : IsDigit(body[i])
          dot == IF dots = {} THEN Len(body) + 1 ELSE CHOOSE i \in dots : TRUE
          int == IntOf(SubSeq(body, 1, dot - 1))
          tenth == IF dot < Len(body) THEN DigitVal(body[dot + 1]) ELSE 0
          mag == int * 10 + tenth
      IN IF cs = <<>> THEN [fin |-> TRUE, v |-> 0]
         ELSE IF ~wellFormed THEN [fin |-> FALSE, v |-> 0]
         ELSE [fin |-> TRUE, v |-> IF neg THEN 0 - mag ELSE mag]
      : body \in {IF signed THEN Tail(cs) ELSE cs}})
    : cs \in {Trim(str)}})

\* Number(x): [fin, v]
ToNumber(x) ==
  CASE x.t = "number" -> [fin |-> TRUE, v |-> x.n]
    [] x.t = "string" -> StringToNumber(x.s)
    [] x.t = "boolean" -> [fin |-> TRUE, v |-> x.n * 10]
    [] x.t = "null" -> [fin |-> TRUE, v |-> 0]
    [] OTHER -> [fin |-> FALSE, v |-> 0]

\* Number.isFinite(x): no coercion, true of numbers only
IsFiniteNumber(x) == x.t = "number"

\* ------------------------------------------------------------ helpers
\* num(x, d): Number(x) when finite, else d (tenths)
num(x, d) == Val({IF p.fin THEN p.v ELSE d : p \in {ToNumber(x)}})

clamp(n, lo, hi) == Max(lo, Min(hi, n))

\* the default locale of the runtime the module is loaded in (taken from the
\* host's environment); toLocaleString() without an argument formats in it
VARIABLE locale

EN_US == "en-US"
DE_DE == "de-DE"

\* the default locales considered: one that groups digits with "," and one
\* that groups them with "."
Locales == {EN_US, DE_DE}

\* the character a locale puts between groups of three digits
groupSeparator(loc) == IF loc = DE_DE THEN "." ELSE ","

RECURSIVE GroupedWith(_, _)
\* a natural number in groups of three digits separated by sep
GroupedWith(sep, k) ==
  Val({IF n < 1000 THEN DigitsOf(n)
       ELSE LET r == n % 1000
                pad == IF r < 10 THEN <<"0", "0">> ELSE IF r < 100 THEN <<"0">> ELSE <<>>
            IN GroupedWith(sep, n \div 1000) \o <<sep>> \o pad \o DigitsOf(r) : n \in {k}})

\* Number.prototype.toLocaleString() of a natural number, in the default locale
Grouped(k) == GroupedWith(groupSeparator(locale), k)

\* money without Math.round: a fractional amount keeps its first decimal
moneyUnrounded(n) ==
  Val({<<"$">> \o Grouped(m \div 10)
         \o (IF m % 10 = 0 THEN <<>> ELSE <<".", DigitChars[(m % 10) + 1]>>) :
       m \in {IF n < 0 THEN 0 - n ELSE n}})

\* money(n) for n in tenths: "$" and the rounded amount with separators
money(n) ==
  Val({<<"$">> \o (IF r < 0 THEN <<"-">> \o Grouped(0 - r) ELSE Grouped(r)) :
       r \in {Round(n)}})

\* moneyNum(s): null for a falsy or unparseable s, else the number
moneyNum(x) ==
  IF ~Truthy(x) THEN Null
  ELSE LET kept == SelectSeq(StringOf(x), LAMBDA c : IsDigit(c) \/ c = "." \/ c = "-")
       IN Val({IF p.fin THEN Num(p.v) ELSE Null : p \in {StringToNumber(kept)}})

\* ------------------------------------------------------------ constants
\* new Date().getFullYear() at module load
nowYear == 2026

\* RANGE_WIDTH, in percent
RANGE_WIDTH == [high |-> 8, medium |-> 12, low |-> 18]

\* ABS_MIN_SPREAD_DOLLARS
ABS_MIN_SPREAD_DOLLARS == 800

\* CLAMP_BAND, in percent
CLAMP_BAND == [low |-> 50, high |-> 160]

\* the labels of a confidence
LOW == <<"l", "o", "w">>
MEDIUM == <<"m", "e", "d", "i", "u", "m">>
HIGH == <<"h", "i", "g", "h">>

\* ------------------------------------------------------------ baseline
\* 1200 * Math.pow(L, 1.22) for L = 10..55, in 1/10000 of a dollar
PowBase ==
  <<199150429, 223707385, 248761041, 274278734, 300232325, 326597294,
    353352058, 380477457, 407956355, 435773322, 463914387, 492366828,
    521119011, 550160247, 579480680, 609071189, 638923307, 669029146,
    699381346, 729973011, 760797675, 791849255, 823122019, 854610556,
    886309746, 918214740, 950320936, 982623959, 1015119648, 1047804035,
    1080673335, 1113723930, 1146952363, 1180355320, 1213929628, 1247672241,
    1281580234, 1315650796, 1349881221, 1384268906, 1418811341, 1453506107,
    1488350869, 1523343371, 1558481434, 1593762952>>

\* NaN as a guard value or a factor (every number of the baseline is >= 0)
NaN == -1

\* the keys every object literal inherits from Object.prototype: table[k] is
\* then a function (or the prototype), which is truthy and multiplies to NaN
InheritedKeys ==
  {"constructor", "toString", "toLocaleString", "valueOf", "hasOwnProperty",
   "isPrototypeOf", "propertyIsEnumerable", "__proto__"}

\* condF with the entries of Good and Fair exchanged
condFFairAbove(condition) ==
  CASE condition = "Excellent" -> 112
    [] condition = "Good" -> 70
    [] condition = "Fair" -> 100
    [] condition = "Needs Work" -> 45
    [] condition \in InheritedKeys -> NaN
    [] OTHER -> 100

\* the condition table, in percent: table[k] || 1.0, so a key that is neither
\* listed nor inherited gives 1.0
condF(condition) ==
  CASE condition = "Excellent" -> 112
    [] condition = "Good" -> 100
    [] condition = "Fair" -> 70
    [] condition = "Needs Work" -> 45
    [] condition \in InheritedKeys -> NaN
    [] OTHER -> 100

\* the runs table, in percent
runsF(runs) ==
  CASE runs = "Yes" -> 100
    [] runs = "Starts but stalls" -> 75
    [] runs = "No" -> 55
    [] runs \in InheritedKeys -> NaN
    [] OTHER -> 100

\* the size-tiered trailer value, in dollars, for a length in tenths
trailerAdj(L) ==
  IF L <= 180 THEN 800 ELSE IF L <= 240 THEN 1500 ELSE IF L <= 300 THEN 2500 ELSE 3500

\* the normalised length and year, in tenths
normLength(payload) == clamp(num(payload.length, 200), 80, 600)

normYear(payload) == clamp(num(payload.year, 20050), 19500, (nowYear + 1) * 10)

\* baselineGuard(payload): the guard value, a number (in tenths) or NaN.  base
\* is carried in 1/10000 of a dollar and rounded to that unit after each
\* factor; the length is a whole number of feet.  A factor that is NaN makes
\* base NaN, and Math.max(500, Math.round(NaN)) is NaN.
baselineGuard(payload) ==
  Val({
  LET b0 == PowBase[(Max(100, Min(L, 550)) \div 10) - 9]
      \* dep in 1/1000
      dep == IF age <= 50 THEN 7 * age
             ELSE IF age <= 200 THEN 350 + 4 * (age - 50)
             ELSE 950
      b1 == MulDiv(b0, 1000 - Min(dep, 950), 1000)
      b2 == MulDiv(b1, condF(payload.condition), 100)
      b3 == MulDiv(b2, runsF(payload.runs), 100)
      \* penalty = min(0.40, (hours - 800) / 1000 * 0.25), in 1/40000
      b4 == IF hours > 8000
            THEN MulDiv(b3, 40000 - Min(16000, hours - 8000), 40000)
            ELSE IF hours > 0 /\ hours < 2000
                    /\ payload.condition \in {"Excellent", "Good"}
            THEN MulDiv(b3, 103, 100)
            ELSE b3
      b5 == IF Truthy(payload.outOfWaterYearPlus) THEN MulDiv(b4, 90, 100) ELSE b4
      b6 == IF payload.trailer = "Yes"
            THEN b5 + RoundDiv(trailerAdj(L) * 4, 10) * 10000
            ELSE IF payload.trailer = "No" THEN b5 - trailerAdj(L) * 10000
            ELSE b5
      ts == payload.titleStatus
      b7 == IF ts = "Bill of Sale only" THEN MulDiv(b6, 85, 100)
            ELSE IF ts = "Other" THEN MulDiv(b6, 95, 100)
            ELSE IF ts = "Loan/Lien" THEN MulDiv(b6, 98, 100)
            ELSE b6
      hm == toLowerCase(StringOf(OrElse(payload.hullMaterial, Str(<<>>))))
      b8 == IF hm = <<"w", "o", "o", "d">> THEN MulDiv(b7, 85, 100) ELSE b7
      b9 == IF hm = <<"s", "t", "e", "e", "l">> THEN MulDiv(b8, 92, 100) ELSE b8
  IN IF condF(payload.condition) = NaN \/ runsF(payload.runs) = NaN THEN NaN
     ELSE Max(500, RoundDiv(b9, 10000)) * 10
  : L \in {normLength(payload)},
    age \in {Max(0, nowYear * 10 - normYear(payload))},
    hours \in {num(payload.engineHours, 0)}})

\* ------------------------------------------------------------ the response
\* The parsed response `ai`: nul for null (and every falsy JSON value), else
\* an object whose absent keys are Undef.  range is absent (present FALSE) or
\* an object {low, high}; comps and trend are arrays (arr TRUE, items) or not.
NoRange == [present |-> FALSE, low |-> Undef, high |-> Undef]
Range(lo, hi) == [present |-> TRUE, low |-> lo, high |-> hi]
NoArray == [arr |-> FALSE, items |-> <<>>]
Array(items) == [arr |-> TRUE, items |-> items]

\* {}: what JSON.parse(content || "{}") gives for an empty content
EmptyAi ==
  [nul |-> FALSE, estimate |-> Undef, range |-> NoRange, confidence |-> Undef,
   rationale |-> Undef, comps |-> NoArray, trend |-> NoArray]

\* ai = null
NullAi == [EmptyAi EXCEPT !.nul = TRUE]

\* ------------------------------------------------------------ the engine
\* rationaleFrom(payload, age): the sentence, held as the bits it joins
rationaleFrom(payload, age) ==
  LET bit(v) == IF Truthy(v) THEN StringOf(v) ELSE <<>>
      word(w) == IF w = "" THEN <<>> ELSE <<w>>
  IN Str(<<"AI valuation adjusted for">>
         \o StringOf(Num(age)) \o <<"-yr age">>
         \o (IF Truthy(payload.length) THEN StringOf(payload.length) ELSE <<"-">>)
         \o <<"ft", "condition:">>
         \o (IF payload.condition = "" THEN <<"unknown">> ELSE <<payload.condition>>)
         \o <<"runs:">> \o word(payload.runs)
         \o <<"hours:">> \o bit(payload.engineHours)
         \o <<"trailer:">> \o word(payload.trailer)
         \o (IF Truthy(payload.outOfWaterYearPlus)
             THEN <<"stored out of water 1+ yr">> ELSE <<>>)
         \o <<"title:">> \o word(payload.titleStatus))

\* targetOf with a low-confidence width of 25%
targetOfWide(confidence, ugly) ==
  IF confidence = HIGH THEN RANGE_WIDTH.high
  ELSE IF confidence = LOW \/ ugly THEN 25
  ELSE RANGE_WIDTH.medium

\* the target half-width, in percent
targetOf(confidence, ugly) ==
  IF confidence = HIGH THEN RANGE_WIDTH.high
  ELSE IF confidence = LOW \/ ugly THEN RANGE_WIDTH.low
  ELSE RANGE_WIDTH.medium

\* keepsProposed without the test that the proposed range envelopes est
keepsProposedUnchecked(est, proposedLow, proposedHigh, target) ==
  /\ IsFiniteNumber(proposedLow) /\ IsFiniteNumber(proposedHigh)
  /\ \E aiHalf \in {Max(est - proposedLow.n, proposedHigh.n - est)} :
        /\ aiHalf <= est /\ aiHalf * 100 <= target * est
        /\ aiHalf >= ABS_MIN_SPREAD_DOLLARS * 10
        /\ aiHalf * 25 >= est

\* keepsProposed without the lower limit on the width of the proposed range
keepsProposedNoFloor(est, proposedLow, proposedHigh, target) ==
  /\ IsFiniteNumber(proposedLow) /\ IsFiniteNumber(proposedHigh)
  /\ proposedLow.n <= est /\ proposedHigh.n >= est
  /\ \E aiHalf \in {Max(est - proposedLow.n, proposedHigh.n - est)} :
        aiHalf <= est /\ aiHalf * 100 <= target * est

\* whether enforceRange keeps the proposed range (est in tenths; the bounds
\* are null or numbers; target in percent)
keepsProposed(est, proposedLow, proposedHigh, target) ==
  /\ IsFiniteNumber(proposedLow) /\ IsFiniteNumber(proposedHigh)
  /\ proposedLow.n <= est /\ proposedHigh.n >= est
  /\ \E aiHalf \in {Max(est - proposedLow.n, proposedHigh.n - est)} :
        \* aiPercent <= maxAllowed
        /\ aiHalf <= est /\ aiHalf * 100 <= target * est
        \* aiPercent >= minAllowed = max(ABS_MIN_SPREAD_DOLLARS / est, 0.04)
        /\ aiHalf >= ABS_MIN_SPREAD_DOLLARS * 10
        /\ aiHalf * 25 >= est

\* symmetricRange without the $500 floor under low
symmetricRangeNoFloor(est, target) ==
  Val({[low |-> Round(est - half) * 10, high |-> Round(est + half) * 10] :
       half \in {Max(RoundDiv(est * target, 1000), ABS_MIN_SPREAD_DOLLARS) * 10}})

\* the symmetric range enforceRange builds around the estimate
symmetricRange(est, target) ==
  Val({[low |-> Max(500, Round(est - half)) * 10, high |-> Round(est + half) * 10] :
       half \in {Max(RoundDiv(est * target, 1000), ABS_MIN_SPREAD_DOLLARS) * 10}})

\* enforceRange(est, proposedLow, proposedHigh, confidence, ugly): {low, high}
enforceRange(est, proposedLow, proposedHigh, confidence, ugly) ==
  Val({IF keepsProposed(e, pl, ph, target)
       THEN [low |-> Round(pl.n) * 10, high |-> Round(ph.n) * 10]
       ELSE symmetricRange(e, target) :
       e \in {est}, pl \in {proposedLow}, ph \in {proposedHigh},
       target \in {targetOf(confidence, ugly)}})

\* ugly: a red flag in the payload
uglyOf(payload) ==
  \/ payload.condition = "Needs Work"
  \/ payload.runs # "Yes"
  \/ Truthy(payload.outOfWaterYearPlus)
  \/ payload.titleStatus = "Bill of Sale only"

\* step 1: the clamp band around a guard value (tenths)
bandLowOf(guard) == Max(500, RoundDiv(guard * CLAMP_BAND.low, 1000)) * 10

\* bandHighOf rounding the upper edge up instead of to the nearest dollar
bandHighOfCeil(guard) == ((guard * CLAMP_BAND.high + 999) \div 1000) * 10

bandHighOf(guard) == RoundDiv(guard * CLAMP_BAND.high, 1000) * 10

\* estimateFrom without the fallback to the guard: a null estimate counts 0
estimateFromNoFallback(guard, ai) ==
  Val({clamp(e0.n, bandLowOf(g), bandHighOf(g)) :
       g \in {guard}, e0 \in {IF ai.nul THEN Null ELSE moneyNum(ai.estimate)}})

\* estimateFrom pulling an accepted estimate half way to the guard
estimateFromBlended(guard, ai) ==
  Val({clamp(IF ~Truthy(e0) \/ ~IsFiniteNumber(e0) THEN g ELSE (e0.n + g) \div 2,
             bandLowOf(g), bandHighOf(g)) :
       g \in {guard}, e0 \in {IF ai.nul THEN Null ELSE moneyNum(ai.estimate)}})

\* step 3: the estimate from ai (or the guard), clamped to the band (tenths)
estimateFrom(guard, ai) ==
  Val({clamp(IF ~Truthy(e0) \/ ~IsFiniteNumber(e0) THEN g ELSE e0.n,
             bandLowOf(g), bandHighOf(g)) :
       g \in {guard}, e0 \in {IF ai.nul THEN Null ELSE moneyNum(ai.estimate)}})

estimateOf(payload, ai) == estimateFrom(baselineGuard(payload), ai)

\* confidenceOf returning the label as the response spells it
confidenceOfVerbatim(payload, ai) ==
  IF /\ ~ai.nul
     /\ Truthy(ai.confidence)
     /\ toLowerCase(StringOf(ai.confidence)) \in {LOW, MEDIUM, HIGH}
  THEN StringOf(ai.confidence)
  ELSE IF uglyOf(payload) THEN LOW ELSE MEDIUM

\* step 4: the confidence label
confidenceOf(payload, ai) ==
  IF /\ ~ai.nul
     /\ Truthy(ai.confidence)
     /\ toLowerCase(StringOf(ai.confidence)) \in {LOW, MEDIUM, HIGH}
  THEN toLowerCase(StringOf(ai.confidence))
  ELSE IF uglyOf(payload) THEN LOW ELSE MEDIUM

\* step 5: the range around the estimate est
rangeOf(payload, ai, est) ==
  LET hasRange == ~ai.nul /\ ai.range.present
      aiLow == IF hasRange THEN moneyNum(ai.range.low) ELSE Null
      aiHigh == IF hasRange THEN moneyNum(ai.range.high) ELSE Null
  IN enforceRange(est, aiLow, aiHigh, confidenceOf(payload, ai), uglyOf(payload))

BOAT == <<"B", "o", "a", "t">>
LOCAL_MARKET == <<"L", "o", "c", "a", "l", " ", "M", "a", "r", "k", "e", "t">>
SITE_URL == <<"h", "t", "t", "p", "s", ":", "/", "/", "h", "u", "l", "l", "i", "f", "y", ".", "n", "e", "t">>

\* the title of the synthetic comps
titleOf(payload) ==
  Trim(StringOf(OrElse(payload.make, Str(BOAT))) \o <<" ">>
       \o StringOf(OrElse(payload.model, Str(<<>>))))

\* syntheticComps with the ramp counted from 1 instead of 0
syntheticCompsFromOne(payload, est) ==
  Val({[k \in 1..6 |->
         [title |-> Str(title),
          year |-> OrElse(payload.year, Whole(nowYear - (6 - (k - 1)))),
          length |-> OrElse(payload.length, Num(L)),
          price |-> Str(money(RoundDiv(e * (90 + k * 3), 1000) * 10)),
          location |-> OrElse(payload.location, Str(LOCAL_MARKET)),
          url |-> Str(SITE_URL)]] :
       e \in {est}, title \in {titleOf(payload)}, L \in {normLength(payload)}})

\* the six synthetic comps around the estimate est
syntheticComps(payload, est) ==
  Val({[k \in 1..6 |->
         [title |-> Str(title),
          year |-> OrElse(payload.year, Whole(nowYear - (6 - (k - 1)))),
          length |-> OrElse(payload.length, Num(L)),
          price |-> Str(money(RoundDiv(e * (90 + (k - 1) * 3), 1000) * 10)),
          location |-> OrElse(payload.location, Str(LOCAL_MARKET)),
          url |-> Str(SITE_URL)]] :
       e \in {est}, title \in {titleOf(payload)}, L \in {normLength(payload)}})

\* the range of the earlier revision of computeValuation: the response's
\* range stretched to envelope est, or a symmetric one of 12% (22% if ugly)
rangeOfV1(payload, ai, est) ==
  Val({IF ~IsFiniteNumber(lo) \/ ~IsFiniteNumber(hi) \/ lo.n > hi.n
       THEN [low |-> Max(500, RoundDiv(e * (100 - spread), 1000)) * 10,
             high |-> RoundDiv(e * (100 + spread), 1000) * 10]
       ELSE [low |-> Min(lo.n, e), high |-> Max(hi.n, e)] :
       e \in {est},
       lo \in {IF ~ai.nul /\ ai.range.present THEN moneyNum(ai.range.low) ELSE Null},
       hi \in {IF ~ai.nul /\ ai.range.present THEN moneyNum(ai.range.high) ELSE Null},
       spread \in {IF uglyOf(payload) THEN 22 ELSE 12}})

\* compsOf without the slice(0, 8)
compsOfUncut(payload, ai, est) ==
  IF ~ai.nul /\ ai.comps.arr /\ Len(ai.comps.items) # 0
  THEN ai.comps.items
  ELSE syntheticComps(payload, est)

\* step 6: the comps, the response's or six synthetic ones
compsOf(payload, ai, est) ==
  IF ~ai.nul /\ ai.comps.arr /\ Len(ai.comps.items) # 0
  THEN SubSeq(ai.comps.items, 1, Min(8, Len(ai.comps.items)))
  ELSE syntheticComps(payload, est)

MonthShort ==
  <<<<"J", "a", "n">>, <<"F", "e", "b">>, <<"M", "a", "r">>, <<"A", "p", "r">>,
    <<"M", "a", "y">>, <<"J", "u", "n">>, <<"J", "u", "l">>, <<"A", "u", "g">>,
    <<"S", "e", "p">>, <<"O", "c", "t">>, <<"N", "o", "v">>, <<"D", "e", "c">>>>

\* the twelve synthetic points ending at the current month (month is 0..11)
syntheticTrend(est, month) ==
  Val({[k \in 1..12 |->
         [label |-> Str(MonthShort[((month - 11 + (k - 1)) % 12) + 1]),
          price |-> Whole(MulDiv(e, 990 + 15 * (k - 1), 11000))]] : e \in {est}})

\* step 7: the trend when requested, the response's or a synthetic one
trendOf(ai, est, month) ==
  IF ~ai.nul /\ ai.trend.arr /\ Len(ai.trend.items) >= 6
  THEN ai.trend.items
  ELSE syntheticTrend(est, month)

\* the valuation computeValuation returns for a payload, the includeTrend
\* option and the parsed response (steps 1, 3 to 7 and the returned object)
valuationOf(payload, inclTrend, ai, month) ==
  Val({[estimate |-> Str(money(est)),
        range |-> [low |-> Str(money(enforced.low)), high |-> Str(money(enforced.high))],
        confidence |-> Str(confidenceOf(payload, ai)),
        rationale |-> IF ~ai.nul /\ Truthy(ai.rationale) THEN ai.rationale
                      ELSE rationaleFrom(payload, Max(0, nowYear * 10 - normYear(payload))),
        comps |-> compsOf(payload, ai, est),
        hasTrend |-> inclTrend,
        trend |-> IF inclTrend THEN trendOf(ai, est, month) ELSE <<>>] :
       est \in {estimateOf(payload, ai)},
       enforced \in {rangeOf(payload, ai, estimateOf(payload, ai))}})

\* ------------------------------------------------------------ inputs
\* the longest comps and trend arrays a response carries
MaxComps == 9
MaxTrend == 13

Payload(len, yr, cond, rn, hrs, oow, tr, ts, hm) ==
  [length |-> len, year |-> yr, condition |-> cond, runs |-> rn,
   engineHours |-> hrs, outOfWaterYearPlus |-> oow, trailer |-> tr,
   titleStatus |-> ts, hullMaterial |-> hm,
   make |-> Undef, model |-> Undef, location |-> Undef]

\* {}
EmptyPayload ==
  Payload(Undef, Undef, "", "", Undef, Undef, "", "", Undef)

\* a clean 24 ft boat of 2015
PayloadA ==
  [Payload(Whole(24), Whole(2015), "Good", "Yes", Whole(150), Undef, "Yes", "Clean", Undef)
     EXCEPT !.make = Str(<<"S", "e", "a">>), !.model = Str(<<"R", "a", "y">>)]

\* every red flag
PayloadB ==
  Payload(Whole(20), Whole(1995), "Needs Work", "No", Undef, Bool(TRUE), "",
          "Bill of Sale only", Undef)

\* a 20 ft boat of 1990 in fair condition
PayloadC ==
  Payload(Str(<<"2", "0">>), Str(<<"1", "9", "9", "0">>), "Fair", "Yes", Undef,
          Bool(FALSE), "", "", Undef)

\* the largest guard value
PayloadBig ==
  Payload(Whole(55), Whole(nowYear), "Excellent", "Yes", Whole(100), Undef, "Yes",
          "Clean", Undef)

PayloadE ==
  Payload(Whole(18), Whole(2012), "Excellent", "Yes", Whole(50), Undef, "Yes",
          "Loan/Lien", Str(<<"W", "o", "o", "d">>))

PayloadF ==
  Payload(Whole(26), Whole(2018), "Good", "Yes", Undef, Undef, "", "Clean", Undef)

\* a 30 ft boat of 2020 whose engine starts but stalls
PayloadG ==
  Payload(Whole(30), Whole(2020), "Good", "Starts but stalls", Undef, Undef, "",
          "Clean", Undef)

\* payloads of the Vessel Payload domain: every enumerated field is absent or
\* holds one of its listed values
Payloads ==
  {EmptyPayload, PayloadA, PayloadB, PayloadC, PayloadBig, PayloadE, PayloadF,
   PayloadG}

\* "$n" as the estimator writes it, with "," between the thousands
Dollars(n) == Str(<<"$">> \o GroupedWith(",", n))

Estimates ==
  {Undef, Null, Num(0), Num(185005),
   Dollars(18500), Dollars(2000), Dollars(600), Dollars(0), Dollars(99999999),
   Str(<<"-", "$", "5", ",", "0", "0", "0">>),
   Str(<<"N", "/", "A">>),
   Str(<<"1", "8", ",", "5", "0", "0", "-", "1", "9", ",", "0", "0", "0">>),
   Str(<<"$", "1", "8", ",", "5", "0", "0", ".", "5">>)}

Ranges ==
  {NoRange,
   Range(Dollars(17000), Dollars(20000)),
   Range(Dollars(18500), Dollars(19500)),
   Range(Dollars(17100), Dollars(19900)),
   Range(Dollars(10000), Dollars(30000)),
   Range(Dollars(19000), Dollars(20000)),
   Range(Dollars(18000), Dollars(19000)),
   Range(Undef, Dollars(20000)),
   Range(Str(<<"$", "1", "7", ",", "0", "0", "0", ".", "5">>), Num(200005))}

Confidences ==
  {Undef, Str(LOW), Str(MEDIUM), Str(HIGH),
   Str(<<"H", "i", "g", "h">>), Str(<<"L", "O", "W">>),
   Str(<<"s", "u", "r", "e">>), Num(10)}

Rationales == {Undef, Str(<<"c", "o", "m", "p", "s">>)}

\* the k-th comparable and the k-th trend point of a response
ExtComp(k) ==
  [title |-> Str(<<"X">>), year |-> Whole(2000 + k), length |-> Whole(20),
   price |-> Dollars(18000 + k), location |-> Str(<<"F", "L">>), url |-> Str(<<>>)]

ExtPoint(k) == [label |-> Str(DigitsOf(k)), price |-> Whole(18000 + k)]

CompsArrays ==
  {NoArray} \cup {Array([k \in 1..n |-> ExtComp(k)]) : n \in {0, 1, 8, MaxComps}}

TrendArrays ==
  {NoArray} \cup {Array([k \in 1..n |-> ExtPoint(k)]) : n \in 0..MaxTrend}

Ai(e, r, c, ra, co, tr) ==
  [nul |-> FALSE, estimate |-> e, range |-> r, confidence |-> c,
   rationale |-> ra, comps |-> co, trend |-> tr]

\* the JSON values a response's content parses to
JsonValues ==
  {NullAi, EmptyAi}
  \cup {Ai(e, r, c, Undef, NoArray, NoArray) :
          e \in Estimates, r \in Ranges, c \in Confidences}
  \cup {Ai(e, NoRange, Undef, ra, co, tr) :
          e \in {Undef, Dollars(18500)}, ra \in Rationales,
          co \in CompsArrays, tr \in TrendArrays}

\* how the call client.chat.completions.create settles: it rejects, or it
\* fulfils with a content that is no JSON, that is absent, or that is JSON
Rejected == [st |-> "rejected", kind |-> "", value |-> NullAi]
Fulfilled(kind, value) == [st |-> "fulfilled", kind |-> kind, value |-> value]
Pending == [st |-> "pending", kind |-> "", value |-> NullAi]
NoCall == [st |-> "none", kind |-> "", value |-> NullAi]

Outcomes ==
  {Rejected, Fulfilled("text", NullAi), Fulfilled("absent", NullAi)}
  \cup {Fulfilled("json", v) : v \in JsonValues}

\* the current UTC month (0..11) when the trend is synthesized
Months == {0, 10}

\* ------------------------------------------------------------ state
\* (locale, declared with toLocaleString above, is part of the state)
VARIABLES
  client,        \* whether OPENAI_API_KEY gave a client at module load
  utcMonth,      \* new Date().getUTCMonth()
  pc,            \* per invocation: "idle", "awaiting", "done"
  payload,       \* per invocation: its payload
  includeTrend,  \* per invocation: its option
  call,          \* per invocation: the state of its external call
  requests,      \* per invocation: the requests it has issued
  ai,            \* per invocation: the parsed response (NullAi for null)
  result,        \* per invocation: <<valuation>> once returned, else <<>>
  req,           \* per handler run: the HTTP request it serves
  res            \* per handler run: the headers set and the responses sent

vars ==
  <<req, res, client, locale, utcMonth, pc, payload, includeTrend, call, requests, ai, result>>

\* no request received yet; nothing set or sent on the response yet
NoRequest == [method |-> "", body |-> <<>>]
NoResponse == [headers |-> {}, sent |-> <<>>]

Calls == DOMAIN pc

InitOver(cs) ==
  /\ client \in BOOLEAN
  /\ locale \in Locales
  /\ utcMonth \in Months
  /\ pc = [c \in cs |-> "idle"]
  /\ payload = [c \in cs |-> EmptyPayload]
  /\ includeTrend = [c \in cs |-> FALSE]
  /\ call = [c \in cs |-> NoCall]
  /\ requests = [c \in cs |-> 0]
  /\ ai = [c \in cs |-> NullAi]
  /\ result = [c \in cs |-> <<>>]
  /\ req = [c \in cs |-> NoRequest]
  /\ res = [c \in cs |-> NoResponse]

Init == InitOver({1})

\* finish returning a trend whatever the includeTrend option says
finishWithTrend(c, a) ==
  /\ ai' = [ai EXCEPT ![c] = a]
  /\ result' = [result EXCEPT ![c] =
       <<[valuationOf(payload'[c], includeTrend'[c], a, utcMonth) EXCEPT
            !.hasTrend = TRUE,
            !.trend = trendOf(a, estimateOf(payload'[c], a), utcMonth)]>>]
  /\ pc' = [pc EXCEPT ![c] = "done"]

\* steps 3 to 7 and the return, with the response parsed to a
finish(c, a) ==
  /\ ai' = [ai EXCEPT ![c] = a]
  /\ result' = [result EXCEPT ![c] = <<valuationOf(payload'[c], includeTrend'[c], a, utcMonth)>>]
  /\ pc' = [pc EXCEPT ![c] = "done"]

\* computeValuation(p, {includeTrend: t}) with no client, for a payload p of
\* ps: it runs to its return without suspending
InvokeNoClientOf(c, ps) ==
  /\ pc[c] = "idle" /\ ~client
  /\ \E p \in ps, t \in BOOLEAN :
       /\ payload' = [payload EXCEPT ![c] = p]
       /\ includeTrend' = [includeTrend EXCEPT ![c] = t]
  /\ finish(c, NullAi)
  /\ UNCHANGED <<req, res, client, locale, utcMonth, call, requests>>

InvokeNoClient(c) == InvokeNoClientOf(c, Payloads)

\* computeValuation(p, {includeTrend: t}) with a client, for a payload p of
\* ps: it issues the request and suspends at the await
InvokeClientOf(c, ps) ==
  /\ pc[c] = "idle" /\ client
  /\ \E p \in ps, t \in BOOLEAN :
       /\ payload' = [payload EXCEPT ![c] = p]
       /\ includeTrend' = [includeTrend EXCEPT ![c] = t]
  /\ call' = [call EXCEPT ![c] = Pending]
  /\ requests' = [requests EXCEPT ![c] = requests[c] + 1]
  /\ pc' = [pc EXCEPT ![c] = "awaiting"]
  /\ UNCHANGED <<req, res, client, locale, utcMonth, ai, result>>

InvokeClient(c) == InvokeClientOf(c, Payloads)

\* the estimator (or the network) settles the pending call with an outcome
\* of os
SettleWith(c, os) ==
  /\ pc[c] = "awaiting" /\ call[c].st = "pending"
  /\ \E o \in os : call' = [call EXCEPT ![c] = o]
  /\ UNCHANGED <<req, res, client, locale, utcMonth, pc, payload, includeTrend, requests, ai, result>>

Settle(c) == SettleWith(c, Outcomes)

\* ai = JSON.parse(content || "{}"), or null from the catch block
parsed(o) ==
  IF o.st = "rejected" \/ o.kind = "text" THEN NullAi
  ELSE IF o.kind = "absent" THEN EmptyAi
  ELSE o.value

\* Resume issuing the request again after a rejection
ResumeRetrying(c) ==
  /\ pc[c] = "awaiting" /\ call[c].st \in {"rejected", "fulfilled"}
  /\ IF call[c].st = "rejected" /\ requests[c] < 2
     THEN /\ call' = [call EXCEPT ![c] = Pending]
          /\ requests' = [requests EXCEPT ![c] = requests[c] + 1]
          /\ UNCHANGED <<req, res, client, locale, utcMonth, pc, payload, includeTrend, ai, result>>
     ELSE /\ UNCHANGED <<payload, includeTrend>>
          /\ finish(c, parsed(call[c]))
          /\ UNCHANGED <<req, res, client, locale, utcMonth, call, requests>>

\* Resume with the parsed response held in one variable shared by every
\* invocation: it holds the response of the call that settled, whichever
ResumeSharedAi(c) ==
  /\ pc[c] = "awaiting" /\ call[c].st \in {"rejected", "fulfilled"}
  /\ UNCHANGED <<payload, includeTrend>>
  /\ finish(c, parsed(call[CHOOSE d \in DOMAIN pc :
                            /\ call[d].st \in {"rejected", "fulfilled"}
                            /\ \A e \in DOMAIN pc :
                                 call[e].st \in {"rejected", "fulfilled"} => d <= e]))
  /\ UNCHANGED <<req, res, client, locale, utcMonth, call, requests>>

\* the invocation resumes after the await and runs to its return
Resume(c) ==
  /\ pc[c] = "awaiting" /\ call[c].st \in {"rejected", "fulfilled"}
  /\ UNCHANGED <<payload, includeTrend>>
  /\ finish(c, parsed(call[c]))
  /\ UNCHANGED <<req, res, client, locale, utcMonth, call, requests>>

\* the caller takes the valuation; the slot is free for the next invocation
Return(c) ==
  /\ pc[c] = "done"
  /\ pc' = [pc EXCEPT ![c] = "idle"]
  /\ payload' = [payload EXCEPT ![c] = EmptyPayload]
  /\ includeTrend' = [includeTrend EXCEPT ![c] = FALSE]
  /\ call' = [call EXCEPT ![c] = NoCall]
  /\ requests' = [requests EXCEPT ![c] = 0]
  /\ ai' = [ai EXCEPT ![c] = NullAi]
  /\ result' = [result EXCEPT ![c] = <<>>]
  /\ UNCHANGED <<req, res, client, locale, utcMonth>>

Next ==
  \/ \E c \in Calls : InvokeNoClient(c)
  \/ \E c \in Calls : InvokeClient(c)
  \/ \E c \in Calls : Settle(c)
  \/ \E c \in Calls : Resume(c)
  \/ \E c \in Calls : Return(c)

Spec == Init /\ [][Next]_vars

\* the program's own steps are taken once enabled (the event loop runs the
\* continuation of a settled await); nothing obliges the estimator to settle
FairSpec == Spec /\ WF_vars(\E c \in Calls : Resume(c))

\* ------------------------------------------------------------ two invocations
\* Two invocations of computeValuation in one process, over a few payloads
\* and outcomes: each may be at its await while the other runs.
ConcurrentPayloads == {PayloadA, PayloadB, PayloadG}

ConcurrentOutcomes ==
  {Rejected,
   Fulfilled("absent", NullAi),
   Fulfilled("json", Ai(Dollars(18500), Range(Dollars(17000), Dollars(20000)),
                        Str(HIGH), Undef, NoArray, NoArray)),
   Fulfilled("json", Ai(Dollars(2000), NoRange, Undef, Str(<<"c", "o", "m", "p", "s">>),
                        Array([k \in 1..1 |-> ExtComp(k)]),
                        Array([k \in 1..6 |-> ExtPoint(k)])))}

ConcurrentInit == InitOver({1, 2})

ConcurrentNext ==
  \/ \E c \in Calls : InvokeNoClientOf(c, ConcurrentPayloads)
  \/ \E c \in Calls : InvokeClientOf(c, ConcurrentPayloads)
  \/ \E c \in Calls : SettleWith(c, ConcurrentOutcomes)
  \/ \E c \in Calls : Resume(c)
  \/ \E c \in Calls : Return(c)

ConcurrentSpec == ConcurrentInit /\ [][ConcurrentNext]_vars

\* ------------------------------------------------------------ /api/estimate
\* The handler of /api/estimate serving one request.  The raw body is held by
\* what JSON.parse makes of it: empty text, text that is no JSON, or a JSON
\* value (prim is the value, Obj for an object whose fields are in object).
Methods == {"GET", "POST", "DELETE"}

EmptyBody == [kind |-> "empty", prim |-> Undef, object |-> EmptyPayload]
InvalidBody == [kind |-> "invalid", prim |-> Undef, object |-> EmptyPayload]
JsonBody(v) == [kind |-> "json", prim |-> v, object |-> EmptyPayload]
ObjectBody(p) == [kind |-> "json", prim |-> Obj, object |-> p]

\* the texts a request carries: nothing, broken JSON, the JSON values null, 5
\* and "abc", and JSON objects
RawBodies ==
  {EmptyBody, InvalidBody, JsonBody(Null), JsonBody(Whole(5)),
   JsonBody(Str(<<"a", "b", "c">>))}
  \cup {ObjectBody(p) : p \in ConcurrentPayloads \cup {EmptyPayload}}

\* readJsonBody answering null when the text is no JSON
readJsonBodyStrict(raw) ==
  IF raw.kind = "empty" THEN ObjectBody(EmptyPayload)
  ELSE IF raw.kind = "invalid" THEN JsonBody(Null)
  ELSE raw

\* readJsonBody(req): raw ? JSON.parse(raw) : {}, and {} when parse throws
readJsonBody(raw) ==
  IF raw.kind \in {"empty", "invalid"} THEN ObjectBody(EmptyPayload) ELSE raw

\* whether computeValuation throws on the value: reading payload.length of
\* null is a TypeError (the default {} replaces undefined only)
throwsOn(v) == v.prim.t = "null"

\* what the property reads of computeValuation see in a JSON value: the fields
\* of an object, the length of a string, and undefined otherwise
fieldsOf(v) ==
  IF v.prim.t = "object" THEN v.object
  ELSE IF v.prim.t = "string" THEN [EmptyPayload EXCEPT !.length = Whole(Len(v.prim.s))]
  ELSE EmptyPayload

ErrorBody(msg) == [kind |-> "error", error |-> msg, valuation |-> <<>>]
ValuationBody(v) == [kind |-> "valuation", error |-> "", valuation |-> <<v>>]

\* lines 4-10: the method check; a POST suspends at the await of readJsonBody
HandlerReceive(c) ==
  /\ req[c] = NoRequest
  /\ \E m \in Methods, b \in RawBodies :
       /\ req' = [req EXCEPT ![c] = [method |-> m, body |-> b]]
       /\ res' = IF m # "POST"
                 THEN [res EXCEPT ![c] =
                        [headers |-> {<<"Allow", "POST">>},
                         sent |-> <<[status |-> 405, body |-> ErrorBody("Use POST")]>>]]
                 ELSE res
  /\ UNCHANGED <<client, locale, utcMonth, pc, payload, includeTrend, call, requests, ai, result>>

\* lines 10-13 and 16-18: the body is read and computeValuation is invoked
\* with includeTrend false; if it throws, the catch block answers 500
HandlerEstimate(c) ==
  /\ req[c].method = "POST" /\ pc[c] = "idle"
  /\ result[c] = <<>> /\ res[c].sent = <<>>
  /\ \E v \in {readJsonBody(req[c].body)} :
       IF throwsOn(v)
       THEN /\ res' = [res EXCEPT ![c].sent =
                        <<[status |-> 500, body |-> ErrorBody("Failed to create estimate")]>>]
            /\ UNCHANGED <<req, client, locale, utcMonth, pc, payload, includeTrend,
                           call, requests, ai, result>>
       ELSE /\ InvokeNoClientOf(c, {fieldsOf(v)}) \/ InvokeClientOf(c, {fieldsOf(v)})
            /\ includeTrend'[c] = FALSE

\* lines 14-15: the valuation is sent as JSON with status 200
HandlerRespond(c) ==
  /\ req[c].method = "POST" /\ pc[c] = "done" /\ res[c].sent = <<>>
  /\ res' = [res EXCEPT ![c] =
               [headers |-> res[c].headers \cup {<<"Content-Type", "application/json">>},
                sent |-> <<[status |-> 200, body |-> ValuationBody(result[c][1])]>>]]
  /\ UNCHANGED <<req, client, locale, utcMonth, pc, payload, includeTrend, call, requests,
                 ai, result>>

HandlerInit == InitOver({1})

HandlerNext ==
  \/ \E c \in Calls : HandlerReceive(c)
  \/ \E c \in Calls : HandlerEstimate(c)
  \/ \E c \in Calls : SettleWith(c, ConcurrentOutcomes)
  \/ \E c \in Calls : Resume(c)
  \/ \E c \in Calls : HandlerRespond(c)

\* one request served by the handler; the handler's own steps are taken once
\* enabled, and nothing obliges the estimator to settle
HandlerSpec ==
  /\ HandlerInit /\ [][HandlerNext]_vars
  /\ WF_vars(\E c \in Calls : HandlerEstimate(c))
  /\ WF_vars(\E c \in Calls : Resume(c))
  /\ WF_vars(\E c \in Calls : HandlerRespond(c))

\* ------------------------------------------------------------ /api/pdf
\* The handler of src/hullify/api/pdf.js serving one request.  Its module has
\* a client of its own that is always constructed, and helpers of its own.

\* toNumber(v): null for null and undefined, else the number in the text
toNumber(v) ==
  IF v.t \in {"undefined", "null"} THEN Null
  ELSE LET kept == SelectSeq(StringOf(v), LAMBDA ch : IsDigit(ch) \/ ch = "." \/ ch = "-")
       IN Val({IF q.fin THEN Num(q.v) ELSE Null : q \in {StringToNumber(kept)}})

\* money of pdf.js, for a finite n >= 0 in tenths
pdfMoney(n) == Str(<<"$">> \o Grouped(Round(n)))

\* a valuation as the report uses it; a key that is absent is Undef
ReportValuation(estNum, est, lo, hi, conf, rat, cmp) ==
  [estimateNumber |-> estNum, estimate |-> est, range |-> [low |-> lo, high |-> hi],
   confidence |-> conf, rationale |-> rat, comps |-> cmp]

\* body.valuation: missing, null or an object
NoValuation ==
  [kind |-> "undefined", estimateNumber |-> Undef, estimate |-> Undef, range |-> NoRange,
   confidence |-> Undef, confidenceScore |-> Undef, rationale |-> Undef, notes |-> Undef,
   comps |-> NoArray]

NullValuation == [NoValuation EXCEPT !.kind = "null"]

SuppliedValuation(estNum, est, rng, conf) ==
  [NoValuation EXCEPT !.kind = "object", !.estimateNumber = estNum, !.estimate = est,
                      !.range = rng, !.confidence = conf]

\* normalizeValuation(v): <<>> for null, else <<the normalised valuation>>.
\* estNum = v.estimateNumber ?? toNumber(v.estimate) is rounded to hundreds.
normalizeValuation(v) ==
  IF v.kind # "object" THEN <<>>
  ELSE Val({
    IF ~IsFiniteNumber(estNum) THEN <<>>
    ELSE Val({
      <<ReportValuation(
          Num(est),
          Str(<<"$">> \o Grouped(est \div 10)),
          pdfMoney(IF v.range.present /\ Truthy(v.range.low)
                   THEN (IF toNumber(v.range.low).t = "number" THEN toNumber(v.range.low).n ELSE 0)
                   ELSE RoundDiv(est * 97, 1000) * 10),
          pdfMoney(IF v.range.present /\ Truthy(v.range.high)
                   THEN (IF toNumber(v.range.high).t = "number" THEN toNumber(v.range.high).n ELSE 0)
                   ELSE RoundDiv(est * 103, 1000) * 10),
          OrElse(OrElse(v.confidence, v.confidenceScore), Null),
          OrElse(OrElse(v.rationale, v.notes), Null),
          v.comps)>>
      : est \in {RoundDiv(estNum.n, 1000) * 1000}})
    : estNum \in {IF v.estimateNumber.t \notin {"undefined", "null"} THEN v.estimateNumber
                  ELSE toNumber(v.estimate)}})

\* the factor of heuristic, in percent: condMap[k] || 1, NaN for a key that
\* the table object inherits
heuristicFactor(condition) ==
  CASE condition = "Excellent" -> 115
    [] condition = "Good" -> 105
    [] condition = "Fair" -> 85
    [] condition = "Needs Work" -> 65
    [] condition \in InheritedKeys -> NaN
    [] OTHER -> 100

\* the three comps of heuristic
heuristicComps(estNum) ==
  Array(<<[title |-> "Local listing A", price |-> pdfMoney(RoundDiv(estNum * 98, 1000) * 10)],
          [title |-> "Local listing B", price |-> pdfMoney(RoundDiv(estNum * 102, 1000) * 10)],
          [title |-> "Recent sale C", price |-> pdfMoney(RoundDiv(estNum * 95, 1000) * 10)]>>)

\* heuristic(payload): the fallback valuation from size, year and condition
\* (money gives "$" and a dash, written "-" here, for the NaN of an inherited
\* key)
heuristic(p) ==
  Val({
    IF heuristicFactor(p.condition) = NaN
    THEN ReportValuation(Undef, Str(<<"$", "-">>), Str(<<"$", "-">>), Str(<<"$", "-">>),
                         Str(MEDIUM), Str(<<"Heuristic model">>), NoArray)
    ELSE Val({
      ReportValuation(Undef, pdfMoney(estNum),
                      pdfMoney(RoundDiv(estNum * 97, 1000) * 10),
                      pdfMoney(RoundDiv(estNum * 103, 1000) * 10),
                      Str(MEDIUM), Str(<<"Heuristic model">>), heuristicComps(estNum))
      : estNum \in {RoundDiv(sum * heuristicFactor(p.condition), 100000) * 1000}})
    : sum \in {350000 + num(p.length, 0) * 900
                + Max(0, num(p.year, 0) - 20000) * 500}})

\* getValuation after the call has settled with o: the parsed data when it
\* has a truthy estimate, else heuristic(payload)
getValuation(p, o) ==
  Val({IF a.nul \/ ~Truthy(a.estimate) THEN heuristic(p)
       ELSE ReportValuation(Undef, a.estimate,
                            IF a.range.present THEN a.range.low ELSE Undef,
                            IF a.range.present THEN a.range.high ELSE Undef,
                            a.confidence, a.rationale, a.comps)
       : a \in {parsed(o)}})

\* req.body as the platform hands it over: nothing, a text, or an object
\* with the payload fields, includeTrend and valuation
PdfBody(kind, p, t, v) ==
  [kind |-> kind, payload |-> p, includeTrend |-> t, valuation |-> v]

AbsentPdfBody == PdfBody("absent", EmptyPayload, Undef, NoValuation)
InvalidPdfBody == PdfBody("invalid", EmptyPayload, Undef, NoValuation)

\* a payload whose make is the number 5
PayloadMake5 == [EmptyPayload EXCEPT !.make = Whole(5)]

PdfPayloads == {PayloadA, EmptyPayload, PayloadMake5}

PdfValuations ==
  {NoValuation, NullValuation,
   SuppliedValuation(Undef, Undef, NoRange, Undef),
   SuppliedValuation(Whole(18549), Undef, NoRange, Undef),
   SuppliedValuation(Whole(18500), Dollars(18500), Range(Dollars(17000), Dollars(20000)),
                     Str(HIGH)),
   SuppliedValuation(Undef, Dollars(18500), Range(Dollars(17000), Dollars(20000)), Str(HIGH)),
   SuppliedValuation(Null, Dollars(18500), NoRange, Undef),
   SuppliedValuation(Undef, Str(<<"n", "/", "a">>), NoRange, Undef),
   SuppliedValuation(Undef, Str(<<"1", ".", "2", ".", "3">>), NoRange, Undef),
   SuppliedValuation(Str(<<"1", "8", "5", "0", "0">>), Dollars(18500), NoRange, Undef)}

PdfBodies ==
  {AbsentPdfBody, InvalidPdfBody}
  \cup {PdfBody("object", p, t, v) :
          p \in PdfPayloads, t \in {Undef, Bool(FALSE)}, v \in PdfValuations}

PdfDocument(p, v, t) ==
  [kind |-> "pdf", error |-> "", payload |-> p, valuation |-> <<v>>, includeTrend |-> t]

PdfError(msg) ==
  [kind |-> "error", error |-> msg, payload |-> EmptyPayload, valuation |-> <<>>,
   includeTrend |-> FALSE]

\* lines 365-381: the method check, the body, and the choice between the
\* supplied valuation and getValuation, whose request is issued at once
PdfReceive(c) ==
  /\ req[c] = NoRequest
  /\ \E m \in Methods, b \in PdfBodies :
       /\ req' = [req EXCEPT ![c] = [method |-> m, body |-> b]]
       /\ IF m # "POST"
          THEN /\ res' = [res EXCEPT ![c].sent = <<[status |-> 405, body |-> PdfError("Use POST")]>>]
               /\ UNCHANGED <<pc, payload, includeTrend, call, requests, result>>
          ELSE /\ payload' = [payload EXCEPT ![c] = b.payload]
               /\ includeTrend' = [includeTrend EXCEPT ![c] = b.includeTrend # Bool(FALSE)]
               /\ res' = res
               /\ \E nv \in {normalizeValuation(b.valuation)} :
                    IF nv # <<>>
                    THEN /\ result' = [result EXCEPT ![c] = nv]
                         /\ pc' = [pc EXCEPT ![c] = "building"]
                         /\ UNCHANGED <<call, requests>>
                    ELSE /\ call' = [call EXCEPT ![c] = Pending]
                         /\ requests' = [requests EXCEPT ![c] = requests[c] + 1]
                         /\ pc' = [pc EXCEPT ![c] = "awaiting"]
                         /\ UNCHANGED result
  /\ UNCHANGED <<client, locale, utcMonth, ai>>

\* lines 108-127 and 383: getValuation resumes after its await and returns;
\* the handler goes on to build the PDF
PdfResume(c) ==
  /\ pc[c] = "awaiting" /\ call[c].st \in {"rejected", "fulfilled"}
  /\ result' = [result EXCEPT ![c] = <<getValuation(payload[c], call[c])>>]
  /\ ai' = [ai EXCEPT ![c] = parsed(call[c])]
  /\ pc' = [pc EXCEPT ![c] = "building"]
  /\ UNCHANGED <<req, res, client, locale, utcMonth, payload, includeTrend, call, requests>>

\* lines 383-393: the PDF is built and sent; a make that is truthy and no
\* string has no replace method, and the catch block answers 500
PdfSend(c) ==
  /\ pc[c] = "building"
  /\ res' = [res EXCEPT ![c] =
       IF Truthy(payload[c].make) /\ payload[c].make.t # "string"
       THEN [headers |-> {},
             sent |-> <<[status |-> 500, body |-> PdfError("Failed to build PDF")]>>]
       ELSE [headers |-> {<<"Content-Type", "application/pdf">>,
                          <<"Content-Disposition", "attachment">>,
                          <<"Cache-Control", "no-store">>},
             sent |-> <<[status |-> 200,
                         body |-> PdfDocument(payload[c], result[c][1], includeTrend[c])]>>]]
  /\ pc' = [pc EXCEPT ![c] = "done"]
  /\ UNCHANGED <<req, client, locale, utcMonth, payload, includeTrend, call, requests, ai,
                 result>>

PdfInit == InitOver({1})

PdfNext ==
  \/ \E c \in Calls : PdfReceive(c)
  \/ \E c \in Calls : SettleWith(c, ConcurrentOutcomes)
  \/ \E c \in Calls : PdfResume(c)
  \/ \E c \in Calls : PdfSend(c)

\* one request served by the PDF handler
PdfSpec == PdfInit /\ [][PdfNext]_vars

\* ------------------------------------------------------------ baselineGuard alone
\* The payloads baselineGuard is applied to on its own: a request body is any
\* JSON object, so a field may hold any JSON value and an enumerated field any
\* string.
GuardLengths == {8, 9, 10, 17, 18, 19, 24, 25, 30, 31, 55, 60}

\* lengths on both sides of the trailer tiers, with each trailer value, for a
\* recent boat and a fully depreciated one, both in good condition
LengthPayloads ==
  {Payload(Whole(l), Whole(k[1]), k[2], k[3], Undef, Undef, tr, "", Undef) :
     l \in GuardLengths, tr \in {"", "Yes", "No"},
     k \in {<<2015, "Good", "Yes">>, <<1990, "Good", "Yes">>}}

\* raw values of the length field
RawLengths ==
  {Undef, Null, Bool(TRUE), Bool(FALSE), Str(<<>>), Str(<<" ">>),
   Str(<<"a", "b", "c">>), Str(<<"2", "4">>), Str(<<" ", "2", "4", " ">>),
   Whole(0), Whole(5), Whole(100)}

\* raw values of the year field
RawYears ==
  {Undef, Null, Bool(TRUE), Str(<<>>), Str(<<"n", "/", "a">>),
   Str(<<"2", "0", "1", "5">>), Whole(0), Whole(1900), Whole(2050)}

RawPayloads ==
  {Payload(l, Whole(2015), "Good", "Yes", Undef, Undef, "", "", Undef) : l \in RawLengths}
  \cup {Payload(Whole(24), y, "Good", "Yes", Undef, Undef, "", "", Undef) : y \in RawYears}

\* every negative adjustment at once, for the shortest and the longest boat
StackedPayloads ==
  {Payload(Whole(l), Whole(1980), "Needs Work", "No", Whole(5000), Bool(TRUE), "No",
           "Bill of Sale only", Str(<<"W", "o", "o", "d">>)) : l \in {8, 60}}

\* enumerated fields holding a string that is none of the listed values
UnlistedPayloads ==
  {Payload(Whole(24), Whole(2015), cond, rn, Undef, Undef, "", "", Undef) :
     cond \in {"Good", "Mint", "constructor"}, rn \in {"Yes", "Maybe", "toString"}}

\* boats without a negative attribute: a short and a mid-size one without a
\* trailer, one with no trailer answer, and an old short one near the floor
CleanPayloads ==
  {Payload(Whole(k[1]), Whole(k[2]), "Good", "Yes", Whole(100), Bool(FALSE), k[3],
           "Clean", Undef) :
     k \in {<<10, 2015, "No">>, <<24, 2015, "No">>, <<24, 2015, "">>, <<10, 1980, "No">>}}

\* each of them with one field at a penalised value
PenalisedPayloads ==
  UNION {
    {[p EXCEPT !.condition = v] : v \in {"Fair", "Needs Work"}}
    \cup {[p EXCEPT !.runs = v] : v \in {"Starts but stalls", "No"}}
    \cup {[p EXCEPT !.outOfWaterYearPlus = Bool(TRUE)]}
    \cup {[p EXCEPT !.titleStatus = v] : v \in {"Other", "Bill of Sale only"}}
    \cup {[p EXCEPT !.hullMaterial = v] :
            v \in {Str(<<"w", "o", "o", "d">>), Str(<<"S", "t", "e", "e", "l">>)}}
    \cup {[p EXCEPT !.year = Whole(p.year.n \div 10 - 10)]}
    : p \in CleanPayloads}

\* a boat whose value lies below its trailer value, so that base is negative
\* when the title and hull factors are applied
SunkPayloads ==
  {Payload(Whole(10), Whole(1980), "Needs Work", "No", Whole(100), Bool(TRUE), "No", ts, hm) :
     ts \in {"Clean", "Bill of Sale only"}, hm \in {Undef, Str(<<"w", "o", "o", "d">>)}}

\* engine hours on both sides of 0, 200, 800 and the 40% cap (2400)
GuardHours == {0, 100, 199, 200, 800, 900, 2400, 2500, 5000}

HoursPayloads ==
  {Payload(Whole(24), Whole(2015), cond, "Yes", Whole(h), Undef, "", "", Undef) :
     cond \in {"Good", "Excellent"}, h \in GuardHours}

\* a condition that is absent or unlisted, without and with engine hours
ConditionPayloads ==
  {Payload(Whole(24), Whole(2015), cond, "Yes", h, Undef, "", "", Undef) :
     cond \in {"", "Mint"}, h \in {Undef, Whole(100), Whole(900)}}

GuardPayloads ==
  Payloads \cup LengthPayloads \cup RawPayloads \cup StackedPayloads \cup UnlistedPayloads
  \cup CleanPayloads \cup PenalisedPayloads \cup SunkPayloads \cup HoursPayloads
  \cup ConditionPayloads

\* CallBaselineGuard with a default that is shared between callers: a payload
\* without length takes the length of a caller that has returned
CallBaselineGuardSharing(c) ==
  /\ pc[c] = "idle"
  /\ \E p \in GuardPayloads :
       /\ payload' = [payload EXCEPT ![c] = p]
       /\ result' = [result EXCEPT ![c] =
            <<baselineGuard(
                IF p.length = Undef /\ \E d \in DOMAIN pc : pc[d] = "done"
                THEN [p EXCEPT !.length = payload[CHOOSE d \in DOMAIN pc : pc[d] = "done"].length]
                ELSE p)>>]
  /\ pc' = [pc EXCEPT ![c] = "done"]
  /\ UNCHANGED <<req, res, client, locale, utcMonth, includeTrend, call, requests, ai>>

\* a call baselineGuard(p): synchronous, so it runs to its return in one step
CallBaselineGuard(c) ==
  /\ pc[c] = "idle"
  /\ \E p \in GuardPayloads :
       /\ payload' = [payload EXCEPT ![c] = p]
       /\ result' = [result EXCEPT ![c] = <<baselineGuard(p)>>]
  /\ pc' = [pc EXCEPT ![c] = "done"]
  /\ UNCHANGED <<req, res, client, locale, utcMonth, includeTrend, call, requests, ai>>

GuardInit == InitOver({1, 2})

GuardNext ==
  \/ \E c \in Calls : CallBaselineGuard(c)
  \/ \E c \in Calls : Return(c)

\* two callers applying baselineGuard, in any order
GuardSpec == GuardInit /\ [][GuardNext]_vars

\* ------------------------------------------------------------ claims
\* the invocations that have returned, and what they returned
Returned == {c \in Calls : pc[c] = "done"}

valuation(c) == result[c][1]

\* the amount a money string of the valuation shows (tenths): its digits,
\* read without the locale's separators
amount(str) ==
  (IF \E i \in 1..Len(str.s) : str.s[i] = "-" THEN -1 ELSE 1)
    * IntOf(SelectSeq(str.s, IsDigit)) * 10

estimateNumber(c) == amount(valuation(c).estimate)

lowNumber(c) == amount(valuation(c).range.low)

highNumber(c) == amount(valuation(c).range.high)

\* the invocation had no usable response: no client, a rejected call, or a
\* content that is no JSON
unavailable(c) ==
  \/ ~client
  \/ call[c].st = "rejected"
  \/ call[c].st = "fulfilled" /\ call[c].kind = "text"

\* the range proposed by the response of c, as enforceRange receives it
proposedLowOf(c) ==
  IF ~ai[c].nul /\ ai[c].range.present THEN moneyNum(ai[c].range.low) ELSE Null

proposedHighOf(c) ==
  IF ~ai[c].nul /\ ai[c].range.present THEN moneyNum(ai[c].range.high) ELSE Null

keptExternalRange(c) ==
  keepsProposed(estimateOf(payload[c], ai[c]), proposedLowOf(c), proposedHighOf(c),
                targetOf(confidenceOf(payload[c], ai[c]), uglyOf(payload[c])))

C3_MinSpread ==
  \A c \in Returned :
    /\ highNumber(c) - estimateNumber(c) >= ABS_MIN_SPREAD_DOLLARS * 10
    /\ estimateNumber(c) - lowNumber(c) >= ABS_MIN_SPREAD_DOLLARS * 10

\* C4: with no client, a rejected call or a content that is no JSON, the
\* invocation returns a structurally valid valuation whose estimate is
\* baselineGuard(payload) exactly.
C4_BaselineWhenUnavailable ==
  \A c \in Calls :
    (c \in Returned /\ unavailable(c)) =>
         /\ Len(result[c]) = 1
         /\ valuation(c).estimate = Str(money(baselineGuard(payload[c])))
         /\ estimateNumber(c) = baselineGuard(payload[c])
         /\ valuation(c).confidence.s \in {LOW, MEDIUM, HIGH}
         /\ Len(valuation(c).comps) = 6
         /\ valuation(c).hasTrend = includeTrend[c]
         /\ lowNumber(c) <= estimateNumber(c) /\ estimateNumber(c) <= highNumber(c)

\* C4 witness: an invocation returned after its call was rejected.
C4_Witness ==
  \E c \in Returned : client /\ call[c].st = "rejected" /\ baselineGuard(payload[c]) > 5000

\* C5: an external estimate that is non-finite, zero or negative is treated
\* as an unavailable estimator: the returned estimate is the guard value.
C5_InvalidEstimateIsGuard ==
  \A c \in Returned :
    LET raw == IF ai[c].nul THEN Null ELSE moneyNum(ai[c].estimate)
    IN (~ai[c].nul /\ Truthy(ai[c].estimate) /\ (~IsFiniteNumber(raw) \/ raw.n <= 0))
         => estimateNumber(c) = baselineGuard(payload[c])

\* C6: a response whose estimate is missing, unparseable, non-finite or zero
\* is discarded whole: confidence, range, rationale, comps and trend are
\* those of the same invocation with the estimator unavailable.
C6_InvalidResponseDiscarded ==
  \A c \in Returned :
    LET raw == IF ai[c].nul THEN Null ELSE moneyNum(ai[c].estimate)
        alone == valuationOf(payload[c], includeTrend[c], NullAi, utcMonth)
    IN (~ai[c].nul /\ (~IsFiniteNumber(raw) \/ raw.n = 0))
         => /\ valuation(c).confidence = alone.confidence
            /\ valuation(c).range = alone.range
            /\ valuation(c).rationale = alone.rationale
            /\ valuation(c).comps = alone.comps
            /\ valuation(c).trend = alone.trend

\* C7: an invocation that awaits the estimator eventually returns, even if
\* the estimator never responds.
C7_EventuallyReturns == (pc[1] = "awaiting") ~> (pc[1] = "done")

\* C8 (as stated): every invocation that returned issued exactly one request.
C8_ExactlyOneRequest == \A c \in Returned : requests[c] = 1

\* C8 (amended): an invocation issues at most one request, exactly one when a
\* client is configured and none when not, and never a second one after the
\* call has settled, whatever its outcome.
C8_AtMostOneRequest ==
  \A c \in Calls :
    /\ requests[c] <= 1
    /\ pc[c] # "idle" => requests[c] = (IF client THEN 1 ELSE 0)
    /\ call[c].st \in {"rejected", "fulfilled"} => requests[c] = 1

\* C8 witness: an invocation returned after a rejected call, with one request.
C8_Witness ==
  \E c \in Returned : call[c].st = "rejected" /\ requests[c] = 1

\* C9 (as stated): the confidence is the response's label when that label is
\* one of low, medium, high, and otherwise low if ugly else medium.
C9_VerbatimLabel ==
  \A c \in Returned :
    LET label == IF ai[c].nul THEN Undef ELSE ai[c].confidence
    IN valuation(c).confidence =
         IF label \in {Str(LOW), Str(MEDIUM), Str(HIGH)} THEN label
         ELSE IF uglyOf(payload[c]) THEN Str(LOW) ELSE Str(MEDIUM)

\* C9 (amended): the confidence is the response's label in lower case when
\* that lower-cased label is one of low, medium, high, and otherwise low if
\* ugly else medium; it is always one of the three.
C9_LowerCasedLabel ==
  \A c \in Returned :
    LET label == IF ai[c].nul \/ ai[c].confidence.t # "string" THEN <<>>
                 ELSE toLowerCase(ai[c].confidence.s)
    IN /\ valuation(c).confidence.s \in {LOW, MEDIUM, HIGH}
       /\ valuation(c).confidence.s =
            IF label \in {LOW, MEDIUM, HIGH} THEN label
            ELSE IF uglyOf(payload[c]) THEN LOW ELSE MEDIUM

\* C9 witness: a response labelled "High" gave the confidence "high" for an
\* ugly payload.
C9_Witness ==
  \E c \in Returned :
    /\ ~ai[c].nul /\ ai[c].confidence = Str(<<"H", "i", "g", "h">>)
    /\ uglyOf(payload[c])
    /\ valuation(c).confidence = Str(HIGH)

\* C10: with includeTrend the returned trend has exactly 12 elements,
\* whatever trend the response carried.
C10_TrendHasTwelve ==
  \A c \in Returned : includeTrend[c] => Len(valuation(c).trend) = 12

\* C11: the returned valuation has a trend exactly when includeTrend was
\* true; without it no trend is returned even if the response carried one.
C11_TrendIffRequested ==
  \A c \in Returned :
    /\ valuation(c).hasTrend = includeTrend[c]
    /\ ~includeTrend[c] => valuation(c).trend = <<>>
    /\ includeTrend[c] => Len(valuation(c).trend) >= 6

\* C11 witness: a valuation without trend although the response carried a
\* trend array long enough to be kept.
C11_Witness ==
  \E c \in Returned :
    /\ ~includeTrend[c]
    /\ ~ai[c].nul /\ ai[c].trend.arr /\ Len(ai[c].trend.items) >= 6
    /\ ~valuation(c).hasTrend

\* C12: the comps of a returned valuation are at most 8; a non-empty comps
\* array of the response is returned as its first min(8, n) entries, in
\* order and unmodified.
C12_CompsAtMostEight ==
  \A c \in Returned :
    /\ Len(valuation(c).comps) <= 8
    /\ (~ai[c].nul /\ ai[c].comps.arr /\ Len(ai[c].comps.items) > 0) =>
         /\ Len(valuation(c).comps) = Min(8, Len(ai[c].comps.items))
         /\ \A k \in 1..Len(valuation(c).comps) :
              valuation(c).comps[k] = ai[c].comps.items[k]

\* C12 witness: a response with more than 8 comps gave a valuation with 8.
C12_Witness ==
  \E c \in Returned :
    /\ ~ai[c].nul /\ ai[c].comps.arr /\ Len(ai[c].comps.items) > 8
    /\ Len(valuation(c).comps) = 8

\* the response of c supplies no comps: there is no response, or its comps is
\* absent, no array, or an empty array
noExternalComps(c) == ai[c].nul \/ ~ai[c].comps.arr \/ Len(ai[c].comps.items) = 0

\* C13: without comps from the response the valuation has exactly 6 comps,
\* each titled from make/model and located at "Local Market" by default,
\* priced money(round(estimate x (0.90 + 0.03 i))) for i = 0..5: a
\* non-decreasing ramp from 0.90 to 1.05 of the final estimate.
C13_SyntheticComps ==
  \A c \in Returned :
    noExternalComps(c) =>
      LET est == estimateOf(payload[c], ai[c])
          comps == valuation(c).comps
      IN /\ Len(comps) = 6
         /\ \A k \in 1..6 :
              /\ comps[k].title =
                    Str(Trim(StringOf(OrElse(payload[c].make, Str(BOAT))) \o <<" ">>
                             \o StringOf(OrElse(payload[c].model, Str(<<>>)))))
              /\ comps[k].location =
                    (IF Truthy(payload[c].location) THEN payload[c].location
                     ELSE Str(LOCAL_MARKET))
              /\ comps[k].price = Str(money(RoundDiv(est * (90 + 3 * (k - 1)), 1000) * 10))
         /\ \A k \in 1..5 : amount(comps[k].price) <= amount(comps[k + 1].price)
         /\ amount(comps[1].price) * 100 - est * 90 \in -500..500
         /\ amount(comps[6].price) * 100 - est * 105 \in -500..500

\* C13 witness: a response with an empty comps array, for a payload that
\* names its make, gave six comps.
C13_Witness ==
  \E c \in Returned :
    /\ ~ai[c].nul /\ ai[c].comps.arr /\ Len(ai[c].comps.items) = 0
    /\ Truthy(payload[c].make)
    /\ Len(valuation(c).comps) = 6
    /\ amount(valuation(c).comps[1].price) < amount(valuation(c).comps[6].price)

\* the guard value a call of baselineGuard returned (GuardSpec)
guardValue(c) == result[c][1]

\* C14: baselineGuard returns an integer >= 500 for every payload, the empty
\* one and the ones where every negative adjustment stacks included.
C14_GuardAtLeast500 ==
  \A c \in Returned :
    /\ guardValue(c) # NaN
    /\ guardValue(c) % 10 = 0
    /\ guardValue(c) >= 5000

C16_MonotoneInLength ==
  \A c \in Returned, d \in Returned :
    (/\ payload[c].length.t = "number" /\ payload[d].length.t = "number"
     /\ 80 <= payload[c].length.n /\ payload[c].length.n < payload[d].length.n
     /\ payload[d].length.n <= 600
     /\ [payload[c] EXCEPT !.length = payload[d].length] = payload[d])
      => guardValue(c) <= guardValue(d)

\* whether the claim counts a raw field as parseable as a number: a number,
\* or a text that holds a decimal number
parsesAsNumber(x) ==
  \/ x.t = "number"
  \/ x.t = "string" /\ Trim(x.s) # <<>> /\ StringToNumber(x.s).fin

\* C17: an absent or unparseable length or year (undefined, null, empty
\* string, non-numeric text, boolean) becomes the default (20, 2005); a
\* parseable one is clamped to [8, 60], [1950, nowYear + 1].
C17_DefaultsWhenUnparseable ==
  \A c \in Returned :
    LET len == payload[c].length
        yr == payload[c].year
    IN /\ normLength(payload[c]) =
            (IF parsesAsNumber(len) THEN clamp(ToNumber(len).v, 80, 600) ELSE 200)
       /\ normYear(payload[c]) =
            (IF parsesAsNumber(yr) THEN clamp(ToNumber(yr).v, 19500, (nowYear + 1) * 10)
             ELSE 20050)

\* C18: a synthesized range has the half-width of the confidence label alone:
\* half = max(estimate x target, 800) with target 8% for high, 12% for medium
\* and 18% for low, low = max(500, estimate - half), high = estimate + half
\* (each within a dollar, for the rounding to whole dollars).
C18_TargetFromLabelAlone ==
  \A c \in Returned :
    ~keptExternalRange(c) =>
      LET est == estimateOf(payload[c], ai[c])
          label == valuation(c).confidence.s
          target == IF label = HIGH THEN 8 ELSE IF label = MEDIUM THEN 12 ELSE 18
          half100 == Max(est * target, ABS_MIN_SPREAD_DOLLARS * 1000)
      IN /\ highNumber(c) * 100 - (est * 100 + half100) \in -1000..1000
         /\ lowNumber(c) * 100 - Max(500000, est * 100 - half100) \in -1000..1000

C20_MoneyRoundTrip ==
  /\ moneyNum(Str(<<"$", "6", "8", ",", "5", "0", "0">>)) = Whole(68500)
  /\ \A c \in Returned :
       LET est == estimateOf(payload[c], ai[c])
           enforced == rangeOf(payload[c], ai[c], est)
       IN /\ moneyNum(Str(money(est))) = Whole(Round(est))
          /\ moneyNum(valuation(c).estimate) = Whole(Round(est))
          /\ moneyNum(valuation(c).range.low) = Whole(Round(enforced.low))
          /\ moneyNum(valuation(c).range.high) = Whole(Round(enforced.high))

\* a money string that shows a non-negative whole number of dollars: "$" and
\* the digits of the amount in groups of three, nothing else
wholeDollars(str) ==
  /\ str.t = "string"
  /\ amount(str) >= 0
  /\ str.s = <<"$">> \o GroupedWith(groupSeparator(locale), amount(str) \div 10)

\* the trend of c was synthesized by the engine
syntheticTrendOf(c) ==
  /\ includeTrend[c]
  /\ ai[c].nul \/ ~ai[c].trend.arr \/ Len(ai[c].trend.items) < 6

C22_NoInterference ==
  /\ [](\A c \in Returned :
          result[c] = <<valuationOf(payload[c], includeTrend[c], parsed(call[c]), utcMonth)>>)
  /\ [][client' = client /\ locale' = locale]_vars

\* C22 witness: one invocation has returned while the other, for another
\* payload and with another response, is at its await.
C22_Witness ==
  /\ pc[1] = "done" /\ pc[2] = "awaiting"
  /\ call[1].st = "fulfilled" /\ call[2].st = "fulfilled"
  /\ call[1] # call[2]
  /\ payload[1] # payload[2]

\* the external estimate of c as moneyNum parses it (null when there is none)
externalEstimate(c) == IF ai[c].nul THEN Null ELSE moneyNum(ai[c].estimate)

\* C23: an external estimate e with bandLow <= e <= bandHigh is the final
\* estimate, unchanged; the valuation shows it in whole dollars.
C23_InBandEstimateKept ==
  \A c \in Returned :
    LET guard == baselineGuard(payload[c])
        e == externalEstimate(c)
    IN (/\ e.t = "number"
        /\ Max(500, RoundDiv(guard * 5, 100)) * 10 <= e.n
        /\ e.n <= RoundDiv(guard * 16, 100) * 10)
         => /\ estimateOf(payload[c], ai[c]) = e.n
            /\ estimateNumber(c) = Round(e.n) * 10

\* C23 witness: an external estimate strictly inside the band, and not the
\* guard, was returned.
C23_Witness ==
  \E c \in Returned :
    /\ externalEstimate(c).t = "number"
    /\ bandLowOf(baselineGuard(payload[c])) < externalEstimate(c).n
    /\ externalEstimate(c).n < bandHighOf(baselineGuard(payload[c]))
    /\ externalEstimate(c).n # baselineGuard(payload[c])
    /\ estimateNumber(c) = externalEstimate(c).n

\* q is p with exactly one field moved to a penalised value
penalises(p, q) ==
  \/ p.condition = "Good"
     /\ \E v \in {"Fair", "Needs Work"} : q = [p EXCEPT !.condition = v]
  \/ p.runs = "Yes"
     /\ \E v \in {"Starts but stalls", "No"} : q = [p EXCEPT !.runs = v]
  \/ ~Truthy(p.outOfWaterYearPlus) /\ q = [p EXCEPT !.outOfWaterYearPlus = Bool(TRUE)]
  \/ p.titleStatus = "Clean"
     /\ \E v \in {"Other", "Bill of Sale only"} : q = [p EXCEPT !.titleStatus = v]
  \/ /\ toLowerCase(StringOf(OrElse(p.hullMaterial, Str(<<>>))))
          \notin {<<"w", "o", "o", "d">>, <<"s", "t", "e", "e", "l">>}
     /\ toLowerCase(StringOf(OrElse(q.hullMaterial, Str(<<>>))))
          \in {<<"w", "o", "o", "d">>, <<"s", "t", "e", "e", "l">>}
     /\ q = [p EXCEPT !.hullMaterial = q.hullMaterial]
  \/ /\ p.year.t = "number" /\ q.year.t = "number" /\ q.year.n < p.year.n
     /\ q = [p EXCEPT !.year = q.year]

\* C24: moving exactly one field of a payload to a penalised value (a worse
\* condition, runs, storage, title or hull material, or an older year) never
\* increases the guard, whatever the other fields hold, trailer 'No' included.
C24_PenaltyNeverRaises ==
  \A c \in Returned, d \in Returned :
    penalises(payload[c], payload[d]) => guardValue(d) <= guardValue(c)

\* C24 witness: a penalised field lowered the guard of a boat without trailer.
C24_Witness ==
  \E c \in Returned, d \in Returned :
    /\ penalises(payload[c], payload[d])
    /\ payload[c].trailer = "No"
    /\ payload[d].condition = "Fair"
    /\ guardValue(d) < guardValue(c)

\* C25: of two payloads in Good or Excellent condition that differ only in
\* engineHours, 0 <= hours1 <= hours2, the one with fewer hours has the guard
\* that is at least as large.
C25_FewerHoursNeverLower ==
  \A c \in Returned, d \in Returned :
    (/\ payload[c].condition \in {"Good", "Excellent"}
     /\ payload[c].engineHours.t = "number" /\ payload[d].engineHours.t = "number"
     /\ 0 <= payload[c].engineHours.n
     /\ payload[c].engineHours.n <= payload[d].engineHours.n
     /\ [payload[c] EXCEPT !.engineHours = payload[d].engineHours] = payload[d])
      => guardValue(d) <= guardValue(c)

\* C26: a payload whose condition is absent or none of the four listed
\* values has the guard of the same payload with condition 'Good'.
C26_UnknownConditionAsGood ==
  \A c \in Returned, d \in Returned :
    (/\ payload[c].condition \notin {"Excellent", "Good", "Fair", "Needs Work"}
     /\ [payload[c] EXCEPT !.condition = "Good"] = payload[d])
      => guardValue(c) = guardValue(d)

hasParseableEstimate(v) ==
  /\ v.kind = "object"
  /\ \/ IsFiniteNumber(v.estimateNumber)
     \/ v.estimate.t = "string" /\ toNumber(v.estimate).t = "number"

\* C30: in the PDF handler a POST whose body carries a valuation with a
\* finite estimateNumber or with an estimate text that parses makes no
\* external call and the PDF is built from normalizeValuation(body.valuation);
\* any request makes at most one external call.
C30_SuppliedValuationUsed ==
  \A c \in Calls :
    /\ requests[c] <= 1
    /\ (req[c].method = "POST" /\ hasParseableEstimate(req[c].body.valuation)) =>
         /\ requests[c] = 0
         /\ (res[c].sent # <<>> /\ res[c].sent[1].status = 200) =>
              /\ normalizeValuation(req[c].body.valuation) # <<>>
              /\ res[c].sent[1].body.valuation = normalizeValuation(req[c].body.valuation)

====
